---- MODULE Spec2Model ----
(***************************************************************************)
(* Model of kokoro_onnx/trim.py: the framing engine (frame), the RMS       *)
(* estimator (rms), the decibel converters (power_to_db, amplitude_to_db), *)
(* the non-silence classifier (_signal_to_frame_nonsilent) and trim.       *)
(*                                                                         *)
(* Numbers.  The source computes in floating point; the model computes in  *)
(* exact arithmetic over the non-negative numbers n/d * 10^e, stored as    *)
(* records [n, d, e], so rounding, overflow to inf and NaN are not         *)
(* modelled.  A square root sqrt(q) is stored as [sq |-> q], and a decibel *)
(* value 10*log10(q) is stored as [lin |-> q]: log10 is strictly           *)
(* increasing, so the order of decibel values is the order of their q,     *)
(* and subtracting t dB divides q by 10^(t/10).  Decibel parameters are    *)
(* whole multiples of 10 dB so that 10^(t/10) is a power of ten.           *)
(*                                                                         *)
(* Arrays.  A 1-D array is a sequence (numpy index i is element i+1); a    *)
(* 2-D array is a sequence of rows.  Optional arguments are <<>> for None  *)
(* and <<v>> for a given value v.  For the shape of frame's output an     *)
(* n-dimensional array is a record [buf, shape, strides], as numpy holds it.*)
(***************************************************************************)
EXTENDS Integers, Sequences, FiniteSets, TLC

VARIABLES
    call,          \* the entry point invoked: "trim", "frame", "rms", "power_to_db"
    pc,            \* "call" before the invocation, "return" after it, "again" after re-trimming
    x,             \* frame: the array to frame
    y,             \* trim, rms: the signal (an optional for rms)
    S,             \* rms: the spectrogram (optional); power_to_db: the input power array
    frame_length,
    hop_length,
    axis,
    top_db,
    ref,
    amin,
    ret,           \* what the invocation returned or raised
    ret2           \* what trim returned when applied to its own output

vars == <<call, pc, x, y, S, frame_length, hop_length, axis, top_db, ref, amin, ret, ret2>>

----------------------------------------------------------------------------
(* Bounds of the model *)

MaxLen == 4          \* longest signal
MaxFrameLength == 3  \* largest frame_length
MaxHop == 2          \* largest hop_length
MaxBins == 2         \* most frequency bins of a spectrogram
MaxCols == 1         \* most time frames of a spectrogram, longest signal given to rms
MaxArr == 3          \* longest array given to power_to_db
MaxX == 8            \* longest array given to frame
MaxDim == 4          \* largest extent of an axis of an n-dimensional array given to frame

----------------------------------------------------------------------------
(* Exact arithmetic *)

None == <<>>
Some(v) == <<v>>

\* F applied to the value of e, with e evaluated once
Let(F(_), e) == CHOOSE r \in {F(v) : v \in {e}} : TRUE

RECURSIVE Pow10(_)
Pow10(k) == IF k = 0 THEN 1 ELSE 10 * Pow10(k - 1)

Num(n, e) == [n |-> n, d |-> 1, e |-> e]
Zero == Num(0, 0)
IsZero(a) == a.n = 0

Mul(a, b) == [n |-> a.n * b.n, d |-> a.d * b.d, e |-> a.e + b.e]
DivInt(a, k) == [n |-> a.n, d |-> a.d * k, e |-> a.e]
MulInt(a, k) == [n |-> a.n * k, d |-> a.d, e |-> a.e]
Div(a, b) == [n |-> a.n * b.d, d |-> a.d * b.n, e |-> a.e - b.e]
Scale10(a, k) == [n |-> a.n, d |-> a.d, e |-> a.e + k]

Add(a, b) ==
    IF IsZero(a) THEN b
    ELSE IF IsZero(b) THEN a
    ELSE LET e == IF a.e < b.e THEN a.e ELSE b.e
         IN  [n |-> a.n * b.d * Pow10(a.e - e) + b.n * a.d * Pow10(b.e - e),
              d |-> a.d * b.d,
              e |-> e]

\* p * 10^k < q for naturals p, q and an integer k, without forming the product
MagLess(p, q, k) ==
    IF p = 0 THEN q > 0
    ELSE IF q = 0 THEN FALSE
    ELSE IF k >= 0
         THEN IF k > 9 THEN FALSE ELSE p <= (q - 1) \div Pow10(k)
         ELSE IF -k > 9 THEN TRUE ELSE (p \div Pow10(-k)) < q

Less(a, b) == MagLess(a.n * b.d, b.n * a.d, a.e - b.e)
Leq(a, b) == ~Less(b, a)
Eq(a, b) == ~Less(a, b) /\ ~Less(b, a)
Maximum(a, b) == IF Less(a, b) THEN b ELSE a

\* the two halves of a sequence of two or more elements
Front(s) == SubSeq(s, 1, Len(s) \div 2)
Back(s) == SubSeq(s, Len(s) \div 2 + 1, Len(s))

RECURSIVE Sum(_)
Sum(s) ==
    IF s = <<>> THEN Zero
    ELSE IF Len(s) = 1 THEN s[1]
    ELSE Add(Sum(Front(s)), Sum(Back(s)))

RECURSIVE MaxOf(_)
MaxOf(s) == IF Len(s) = 1 THEN s[1] ELSE Maximum(MaxOf(Front(s)), MaxOf(Back(s)))

\* np.sqrt and np.square on non-negative numbers
Sqrt(q) == [sq |-> q]
Square(r) == r.sq
\* np.abs of a real scalar, as a root
Abs(v) == [sq |-> Mul(v, v)]

\* 10 * log10(q), and the arithmetic of decibel values
Log10x10(q) == [lin |-> q]
DbSub(a, b) == [lin |-> Div(a.lin, b.lin)]
DbMinus(a, t) == [lin |-> Scale10(a.lin, -(t \div 10))]
DbOf(t) == [lin |-> Num(1, t \div 10)]
DbLess(a, b) == Less(a.lin, b.lin)
DbMaximum(a, b) == IF DbLess(a, b) THEN b ELSE a

RECURSIVE DbMax(_)
DbMax(s) == IF Len(s) = 1 THEN s[1] ELSE DbMaximum(DbMax(Front(s)), DbMax(Back(s)))

----------------------------------------------------------------------------
(* frame *)

\* numpy.lib.stride_tricks.as_strided on a 1-D buffer, strides in elements
as_strided(buf, strides, shape) ==
    [i \in 1..shape[1] |->
        [k \in 1..shape[2] |-> buf[(i - 1) * strides[1] + (k - 1) * strides[2] + 1]]]

\* np.moveaxis(xw, -1, target) on a 2-D array with shape rows x cols
moveaxis_last(xw, rows, cols, target) ==
    IF target \in {-2, 0}
    THEN [k \in 1..cols |-> [i \in 1..rows |-> xw[i][k]]]
    ELSE xw

\* mutant: the last, partial step is dropped
StepCount_floor(n, step) == n \div step

\* xw[::step] : indices 0, step, 2*step, ... below n
StepCount(n, step) == (n + step - 1) \div step

\* mutant: the view is not downsampled, consecutive windows are returned
downsample_unit(moved, ax, fl, n_frames, hop) ==
    IF ax < 0
    THEN [k \in 1..fl |-> [j \in 1..n_frames |-> moved[k][j]]]
    ELSE [j \in 1..n_frames |-> moved[j]]

\* xw[tuple(slices)] with slices[axis] = slice(0, None, hop) on the moved 2-D view
downsample(moved, ax, fl, n_frames, hop) ==
    IF ax < 0
    THEN [k \in 1..fl |-> [j \in 1..n_frames |-> moved[k][(j - 1) * hop + 1]]]
    ELSE [j \in 1..n_frames |-> moved[(j - 1) * hop + 1]]

\* mutant: hop_length is validated before the length of the input
frame_hop_first(xx, fl, hop, ax) ==
    IF hop < 1
    THEN [ok |-> FALSE, err |-> "ParameterError: Invalid hop_length", view |-> <<>>]
    ELSE IF Len(xx) < fl
    THEN [ok |-> FALSE, err |-> "ParameterError: Input is too short", view |-> <<>>]
    ELSE [ok |-> TRUE, err |-> "",
          view |-> downsample(moveaxis_last(as_strided(xx, <<1, 1>>, <<Len(xx) - (fl - 1), fl>>),
                                            Len(xx) - (fl - 1), fl,
                                            IF ax < 0 THEN ax - 1 ELSE ax + 1),
                              ax, fl, StepCount(Len(xx) - (fl - 1), hop), hop)]

frame(xx, fl, hop, ax) ==
    IF Len(xx) < fl
    THEN [ok |-> FALSE, err |-> "ParameterError: Input is too short", view |-> <<>>]
    ELSE IF hop < 1
    THEN [ok |-> FALSE, err |-> "ParameterError: Invalid hop_length", view |-> <<>>]
    ELSE LET out_strides == <<1, 1>>
             trimmed == Len(xx) - (fl - 1)
             out_shape == <<trimmed, fl>>
             target_axis == IF ax < 0 THEN ax - 1 ELSE ax + 1
             n_frames == StepCount(trimmed, hop)
         IN  Let(LAMBDA xw :
                   Let(LAMBDA moved :
                         [ok |-> TRUE, err |-> "",
                          view |-> downsample(moved, ax, fl, n_frames, hop)],
                       moveaxis_last(xw, trimmed, fl, target_axis)),
                 as_strided(xx, out_strides, out_shape))

----------------------------------------------------------------------------
(* frame on arrays of any number of dimensions: an array or view is a buffer with
   a shape and strides (in elements), as numpy holds it; axes are counted from 0 *)

RECURSIVE Prod(_)
Prod(s) == IF s = <<>> THEN 1 ELSE s[1] * Prod(Tail(s))

\* x.strides of a C-contiguous array
CStrides(shape) == [i \in 1..Len(shape) |-> Prod(SubSeq(shape, i + 1, Len(shape)))]

\* np.array(x): the array of the given shape over a buffer
NdArray(shape, buf) == [buf |-> buf, shape |-> shape, strides |-> CStrides(shape)]

\* a possibly negative axis as an index 0 .. nd - 1
NormAxis(ax, nd) == IF ax < 0 THEN ax + nd ELSE ax

\* as_strided(x, strides=..., shape=...): a view of the same buffer
as_strided_view(xarr, strides, shape) == [buf |-> xarr.buf, shape |-> shape, strides |-> strides]

\* mutant: the within-frame axis stays at the end
moveaxis_none(v, source, destination) == v

\* np.moveaxis(v, source, destination): the remaining axes keep their order and
\* source is inserted at destination
moveaxis(v, source, destination) ==
    LET nd == Len(v.shape)
        src == NormAxis(source, nd) + 1
        dst == NormAxis(destination, nd) + 1
        rest == [i \in 1..(nd - 1) |-> IF i < src THEN i ELSE i + 1]
        order == [i \in 1..nd |->
                    IF i < dst THEN rest[i] ELSE IF i = dst THEN src ELSE rest[i - 1]]
    IN  [buf |-> v.buf,
         shape |-> [i \in 1..nd |-> v.shape[order[i]]],
         strides |-> [i \in 1..nd |-> v.strides[order[i]]]]

\* v[tuple(slices)] with slices[ax] = slice(0, None, hop)
slice_step(v, ax, hop) ==
    LET i == NormAxis(ax, Len(v.shape)) + 1
    IN  [buf |-> v.buf,
         shape |-> [v.shape EXCEPT ![i] = StepCount(@, hop)],
         strides |-> [v.strides EXCEPT ![i] = @ * hop]]

frame_nd(xarr, fl, hop, ax) ==
    LET a == NormAxis(ax, Len(xarr.shape)) + 1
    IN  IF xarr.shape[a] < fl
        THEN [ok |-> FALSE, err |-> "ParameterError: Input is too short", view |-> <<>>]
        ELSE IF hop < 1
        THEN [ok |-> FALSE, err |-> "ParameterError: Invalid hop_length", view |-> <<>>]
        ELSE LET out_strides == xarr.strides \o <<xarr.strides[a]>>
                 x_shape_trimmed == [xarr.shape EXCEPT ![a] = @ - (fl - 1)]
                 out_shape == x_shape_trimmed \o <<fl>>
                 xw == as_strided_view(xarr, out_strides, out_shape)
                 target_axis == IF ax < 0 THEN ax - 1 ELSE ax + 1
                 moved == moveaxis(xw, -1, target_axis)
             IN  [ok |-> TRUE, err |-> "", view |-> slice_step(moved, ax, hop)]

----------------------------------------------------------------------------
(* rms *)

abs2(v) == Mul(v, v)

Zeros(n) == [i \in 1..n |-> Zero]

\* mutant: no centering, the signal is framed unpadded
pad_none(yy, fl) == yy

\* np.pad(y, (frame_length // 2, frame_length // 2), mode="constant")
pad(yy, fl) == Zeros(fl \div 2) \o yy \o Zeros(fl \div 2)

\* x[..., k, :] *= 0.5 on the rows of a 2-D array
HalveRow(a, k) == [a EXCEPT ![k] = [j \in 1..Len(a[k]) |-> DivInt(a[k][j], 2)]]

Column(a, j) == [k \in 1..Len(a) |-> a[k][j]]

\* abs2 of every element of a 2-D array
abs2_all(a) == [k \in 1..Len(a) |-> [j \in 1..Len(a[k]) |-> abs2(a[k][j])]]

\* np.sqrt of every element, as the array of shape (1, t)
sqrt_row(power) == << [j \in 1..Len(power) |-> Sqrt(power[j])] >>

\* np.mean(a, axis=-2)
mean_rows(a) == [j \in 1..Len(a[1]) |-> DivInt(Sum(Column(a, j)), Len(a))]

\* 2 * np.sum(a, axis=-2) / frame_length**2; the division by 0 of numpy does not
\* raise, its non-finite value is the number of denominator 0
spectral_power(a, fl) ==
    [j \in 1..Len(a[1]) |-> DivInt(MulInt(Sum(Column(a, j)), 2), fl * fl)]

\* x[..., 0, :] *= 0.5, and x[..., -1, :] *= 0.5 when frame_length is even
adjust_dc_nyquist(a, fl) ==
    Let(LAMBDA dc : IF fl % 2 = 0 THEN HalveRow(dc, Len(dc)) ELSE dc, HalveRow(a, 1))

rms_from_frames(fr) ==
    IF ~fr.ok
    THEN [ok |-> FALSE, err |-> fr.err, used |-> "y", rms |-> <<>>]
    ELSE Let(LAMBDA sq :
               Let(LAMBDA power : [ok |-> TRUE, err |-> "", used |-> "y", rms |-> sqrt_row(power)],
                   mean_rows(sq)),
             abs2_all(fr.view))

\* mutant: only the even frame_length 2 * d - 2 is accepted
rms_from_spectrogram_even(spec, fl) ==
    IF fl # 2 * Len(spec) - 2
    THEN [ok |-> FALSE, err |-> "ParameterError: frame_length is expected to be",
          used |-> "S", rms |-> <<>>]
    ELSE Let(LAMBDA adj :
               Let(LAMBDA power : [ok |-> TRUE, err |-> "", used |-> "S", rms |-> sqrt_row(power)],
                   spectral_power(adj, fl)),
             adjust_dc_nyquist(abs2_all(spec), fl))

rms_from_spectrogram(spec, fl) ==
    IF Len(spec) # fl \div 2 + 1
    THEN [ok |-> FALSE, err |-> "ParameterError: frame_length is expected to be",
          used |-> "S", rms |-> <<>>]
    ELSE Let(LAMBDA adj :
               Let(LAMBDA power : [ok |-> TRUE, err |-> "", used |-> "S", rms |-> sqrt_row(power)],
                   spectral_power(adj, fl)),
             adjust_dc_nyquist(abs2_all(spec), fl))

\* mutant: supplying both y and S is rejected
rms_strict(yopt, Sopt, fl, hop) ==
    IF yopt # None /\ Sopt # None
    THEN [ok |-> FALSE, err |-> "ParameterError: Either y or S must be input",
          used |-> "", rms |-> <<>>]
    ELSE IF yopt # None
    THEN rms_from_frames(frame(pad(yopt[1], fl), fl, hop, -1))
    ELSE IF Sopt # None
    THEN rms_from_spectrogram(Sopt[1], fl)
    ELSE [ok |-> FALSE, err |-> "ParameterError: Either y or S must be input",
          used |-> "", rms |-> <<>>]

rms(yopt, Sopt, fl, hop) ==
    IF yopt # None
    THEN Let(LAMBDA fr : rms_from_frames(fr),
             Let(LAMBDA padded : frame(padded, fl, hop, -1), pad(yopt[1], fl)))
    ELSE IF Sopt # None
    THEN rms_from_spectrogram(Sopt[1], fl)
    ELSE [ok |-> FALSE, err |-> "ParameterError: Either y or S must be input",
          used |-> "", rms |-> <<>>]

----------------------------------------------------------------------------
(* power_to_db, amplitude_to_db *)

\* a reference: a callable (np.max) or a scalar
RefMax == [callable |-> TRUE, v |-> Zero]
RefScalar(v) == [callable |-> FALSE, v |-> v]

\* log_spec before the top_db clamp
log_spec_of(Sarr, rf, am) ==
    LET ref_value == IF rf.callable THEN MaxOf(Sarr) ELSE rf.v
    IN  [i \in 1..Len(Sarr) |->
            DbSub(Log10x10(Maximum(am, Sarr[i])), Log10x10(Maximum(am, ref_value)))]

\* mutant: the floor is log_spec.max() + top_db
clamp_plus(log_spec, tdb) ==
    [i \in 1..Len(log_spec) |-> DbMaximum(log_spec[i], DbMinus(DbMax(log_spec), -tdb))]

clamp(log_spec, tdb) ==
    [i \in 1..Len(log_spec) |-> DbMaximum(log_spec[i], DbMinus(DbMax(log_spec), tdb))]

power_to_db(Sarr, rf, am, tdb) ==
    IF am.n <= 0
    THEN [ok |-> FALSE, err |-> "ParameterError: amin must be strictly positive", db |-> <<>>]
    ELSE IF tdb # None
    THEN IF tdb[1] < 0
         THEN [ok |-> FALSE, err |-> "ParameterError: top_db must be non-negative", db |-> <<>>]
         ELSE [ok |-> TRUE, err |-> "", db |-> clamp(log_spec_of(Sarr, rf, am), tdb[1])]
    ELSE [ok |-> TRUE, err |-> "", db |-> log_spec_of(Sarr, rf, am)]

RECURSIVE RootMax(_)
RootMax(s) ==
    IF Len(s) = 1 THEN s[1]
    ELSE LET a == RootMax(Front(s))
             b == RootMax(Back(s))
         IN  IF Less(a.sq, b.sq) THEN b ELSE a

amplitude_to_db(Sarr, rf, am, tdb) ==
    LET magnitude == Sarr
        ref_value == IF rf.callable THEN RootMax(magnitude) ELSE Abs(rf.v)
        power == [i \in 1..Len(magnitude) |-> Square(magnitude[i])]
    IN  power_to_db(power, RefScalar(Square(ref_value)), Mul(am, am), tdb)

\* amplitude_to_db's default amin = 1e-5
AMIN == Num(1, -5)

----------------------------------------------------------------------------
(* _signal_to_frame_nonsilent, frames_to_samples, trim *)

\* mutant: db > top_db, the sign of the threshold lost
threshold_unsigned(db, tdb) == [j \in 1..Len(db) |-> DbLess(DbOf(tdb), db[j])]

\* db > -top_db
threshold(db, tdb) == [j \in 1..Len(db) |-> DbLess(DbOf(-tdb), db[j])]

signal_to_frame_nonsilent(yy, fl, hop, tdb, rf) ==
    Let(LAMBDA mse :
          IF ~mse.ok
          THEN [ok |-> FALSE, err |-> mse.err, mask |-> <<>>]
          ELSE Let(LAMBDA db : [ok |-> TRUE, err |-> "", mask |-> threshold(db, tdb)],
                   amplitude_to_db(mse.rms[1], rf, AMIN, None).db),
        rms(Some(yy), None, fl, hop))

\* mutant: the n_fft offset is applied although n_fft is None
frames_to_samples_offset(frames, hop, n_fft) == frames * hop + hop \div 2

frames_to_samples(frames, hop, n_fft) ==
    LET offset == IF n_fft # None THEN n_fft[1] \div 2 ELSE 0
    IN  frames * hop + offset

\* np.flatnonzero(mask): the numpy indices of the true entries
flatnonzero(mask) == {j \in 0..(Len(mask) - 1) : mask[j + 1]}

SetMin(s) == CHOOSE m \in s : \A o \in s : m <= o
SetMax(s) == CHOOSE m \in s : \A o \in s : m >= o
Min2(a, b) == IF a < b THEN a ELSE b

\* mutant: yy[start:], the end of the interval ignored
Slice_open(yy, start, end) == SubSeq(yy, start + 1, Len(yy))

\* yy[start:end] for start, end >= 0
Slice(yy, start, end) == SubSeq(yy, start + 1, Min2(end, Len(yy)))

\* mutant: end is not clamped to the length of the signal
trim_interval_unclamped(yy, mask, hop) ==
    LET nonzero == flatnonzero(mask)
    IN  IF nonzero # {}
        THEN << frames_to_samples(SetMin(nonzero), hop, None),
                frames_to_samples(SetMax(nonzero) + 1, hop, None) >>
        ELSE <<0, 0>>

trim_interval(yy, mask, hop) ==
    LET nonzero == flatnonzero(mask)
    IN  IF nonzero # {}
        THEN << frames_to_samples(SetMin(nonzero), hop, None),
                Min2(Len(yy), frames_to_samples(SetMax(nonzero) + 1, hop, None)) >>
        ELSE <<0, 0>>

trim(yy, tdb, rf, fl, hop) ==
    Let(LAMBDA ns :
          IF ~ns.ok
          THEN [ok |-> FALSE, err |-> ns.err, mask |-> <<>>, y |-> <<>>, index |-> <<0, 0>>]
          ELSE Let(LAMBDA index :
                     [ok |-> TRUE, err |-> "", mask |-> ns.mask,
                      y |-> Slice(yy, index[1], index[2]), index |-> index],
                   trim_interval(yy, ns.mask, hop)),
        signal_to_frame_nonsilent(yy, fl, hop, tdb, rf))

----------------------------------------------------------------------------
(* Inputs *)

\* sample amplitudes: 0, 0.001 and 0.8
Amps == {Zero, Num(1, -3), Num(8, -1)}
Signals == UNION {[1..n -> Amps] : n \in 0..MaxLen}

\* thresholds: trim's default of 60 dB, 0 dB and a negative one
TopDbs == {-10, 0, 60}

\* references: the default np.max, and the scalars 1.0 and 1e-6
Refs == {RefMax, RefScalar(Num(1, 0)), RefScalar(Num(1, -6))}

\* 1000 samples, zero except indices 200..399 at amplitude 1.0
Scenario == [i \in 1..1000 |-> IF (i - 1) \in 200..399 THEN Num(1, 0) ELSE Zero]

\* arrays for frame: the samples 1, 2, ..., n, all distinct
Ramp(n) == [i \in 1..n |-> Num(i, 0)]
FrameArrays == {Ramp(n) : n \in 0..MaxX}
\* arrays of one to three dimensions for frame, of distinct samples
NdArrays == {NdArray(sh, Ramp(Prod(sh))) : sh \in UNION {[1..nd -> 1..MaxDim] : nd \in 1..3}}

\* optional signals and spectrograms (magnitudes 0 and 1.0) for rms
RmsSignals == {None} \cup {Some(s) : s \in UNION {[1..n -> Amps] : n \in 0..MaxCols}}
Mags == {Zero, Num(1, 0)}
Spectrograms ==
    {None} \cup {Some(s) : s \in UNION {[1..d -> [1..c -> Mags]] :
                                          d \in 1..MaxBins, c \in 1..MaxCols}}

\* power arrays, references, floors and dynamic ranges for power_to_db
PowerVals == {Zero, Num(1, -12), Num(1, -3), Num(1, 0)}
PowerArrays == UNION {[1..n -> PowerVals] : n \in 1..MaxArr}
\* amplitude arrays for amplitude_to_db: the non-negative roots of the power values
AmplitudeArrays == UNION {[1..n -> {Sqrt(p) : p \in PowerVals}] : n \in 1..MaxArr}
DbRefs == {RefMax, RefScalar(Num(1, 0)), RefScalar(Num(1, -12))}
Amins == {Num(1, -10), Zero, Num(-1, 0)}
DbTopDbs == {None, Some(-10), Some(0), Some(10), Some(80)}

Idle == [ok |-> FALSE, err |-> "not called"]

----------------------------------------------------------------------------
(* trim, and trim applied to its own output *)

InitTrim ==
    /\ call = "trim"
    /\ pc = "call"
    /\ \/ /\ y \in Signals
          /\ frame_length \in 1..MaxFrameLength
          /\ hop_length \in 1..MaxHop
          /\ top_db \in TopDbs
          /\ ref \in Refs
       \/ /\ y = Scenario
          /\ frame_length = 100
          /\ hop_length = 50
          /\ top_db = 60
          /\ ref = RefMax
    /\ x = <<>>
    /\ S = None
    /\ axis = -1
    /\ amin = AMIN
    /\ ret = Idle
    /\ ret2 = Idle

Trim ==
    /\ call = "trim"
    /\ pc = "call"
    /\ ret' = trim(y, top_db, ref, frame_length, hop_length)
    /\ pc' = "return"
    /\ UNCHANGED <<call, x, y, S, frame_length, hop_length, axis, top_db, ref, amin, ret2>>

TrimAgain ==
    /\ call = "trim"
    /\ pc = "return"
    /\ ret.ok
    /\ ret2' = trim(ret.y, top_db, ref, frame_length, hop_length)
    /\ pc' = "again"
    /\ UNCHANGED <<call, x, y, S, frame_length, hop_length, axis, top_db, ref, amin, ret>>

NextTrim == Trim \/ TrimAgain

SpecTrim == InitTrim /\ [][NextTrim]_vars

----------------------------------------------------------------------------
(* frame *)

InitFrame ==
    /\ call = "frame"
    /\ pc = "call"
    /\ x \in FrameArrays
    /\ frame_length \in 1..MaxFrameLength
    /\ hop_length \in -1..MaxHop
    /\ axis \in {-1, 0}
    /\ y = <<>>
    /\ S = None
    /\ top_db = 60
    /\ ref = RefMax
    /\ amin = AMIN
    /\ ret = Idle
    /\ ret2 = Idle

Frame ==
    /\ call = "frame"
    /\ pc = "call"
    /\ ret' = frame(x, frame_length, hop_length, axis)
    /\ pc' = "return"
    /\ UNCHANGED <<call, x, y, S, frame_length, hop_length, axis, top_db, ref, amin, ret2>>

NextFrame == Frame

SpecFrame == InitFrame /\ [][NextFrame]_vars

----------------------------------------------------------------------------
(* frame on n-dimensional arrays *)

InitFrameNd ==
    /\ call = "frame"
    /\ pc = "call"
    /\ x \in NdArrays
    /\ frame_length \in 1..MaxFrameLength
    /\ hop_length \in 0..MaxHop
    /\ axis \in (-Len(x.shape))..(Len(x.shape) - 1)
    /\ y = <<>>
    /\ S = None
    /\ top_db = 60
    /\ ref = RefMax
    /\ amin = AMIN
    /\ ret = Idle
    /\ ret2 = Idle

FrameNd ==
    /\ call = "frame"
    /\ pc = "call"
    /\ ret' = frame_nd(x, frame_length, hop_length, axis)
    /\ pc' = "return"
    /\ UNCHANGED <<call, x, y, S, frame_length, hop_length, axis, top_db, ref, amin, ret2>>

NextFrameNd == FrameNd

SpecFrameNd == InitFrameNd /\ [][NextFrameNd]_vars

----------------------------------------------------------------------------
(* rms *)

InitRms ==
    /\ call = "rms"
    /\ pc = "call"
    /\ y \in RmsSignals
    /\ S \in Spectrograms
       \* frame_length = 0 only for rms(S=...): frames of no samples are not modelled
    /\ frame_length \in (IF y = None THEN 0 ELSE 1)..MaxFrameLength
    /\ hop_length \in 1..MaxHop
    /\ x = <<>>
    /\ axis = -1
    /\ top_db = 60
    /\ ref = RefMax
    /\ amin = AMIN
    /\ ret = Idle
    /\ ret2 = Idle

Rms ==
    /\ call = "rms"
    /\ pc = "call"
    /\ ret' = rms(y, S, frame_length, hop_length)
    /\ pc' = "return"
    /\ UNCHANGED <<call, x, y, S, frame_length, hop_length, axis, top_db, ref, amin, ret2>>

NextRms == Rms

SpecRms == InitRms /\ [][NextRms]_vars

----------------------------------------------------------------------------
(* power_to_db and amplitude_to_db *)

InitDb ==
    /\ \/ /\ call = "power_to_db"
          /\ S \in PowerArrays
       \/ /\ call = "amplitude_to_db"
          /\ S \in AmplitudeArrays
    /\ pc = "call"
    /\ ref \in DbRefs
    /\ amin \in Amins
    /\ top_db \in DbTopDbs
    /\ x = <<>>
    /\ y = <<>>
    /\ frame_length = 1
    /\ hop_length = 1
    /\ axis = -1
    /\ ret = Idle
    /\ ret2 = Idle

PowerToDb ==
    /\ call = "power_to_db"
    /\ pc = "call"
    /\ ret' = power_to_db(S, ref, amin, top_db)
    /\ pc' = "return"
    /\ UNCHANGED <<call, x, y, S, frame_length, hop_length, axis, top_db, ref, amin, ret2>>

AmplitudeToDb ==
    /\ call = "amplitude_to_db"
    /\ pc = "call"
    /\ ret' = amplitude_to_db(S, ref, amin, top_db)
    /\ pc' = "return"
    /\ UNCHANGED <<call, x, y, S, frame_length, hop_length, axis, top_db, ref, amin, ret2>>

NextDb == PowerToDb \/ AmplitudeToDb

SpecDb == InitDb /\ [][NextDb]_vars

----------------------------------------------------------------------------
(* Claims about trim *)

Returned == call = "trim" /\ pc \in {"return", "again"} /\ ret.ok

\* numpy indices of the frames the mask of the first trim marks non-silent
NonSilentFrames == {j \in 0..(Len(ret.mask) - 1) : ret.mask[j + 1]}

IsFirst(j, fs) == j \in fs /\ \A o \in fs : j <= o
IsLast(j, fs) == j \in fs /\ \A o \in fs : o <= j

\* out = yy[start:end], element by element
IsSlice(out, yy, start, end) ==
    /\ Len(out) = end - start
    /\ \A i \in 1..Len(out) : out[i] = yy[start + i]

\* C1: when no frame is non-silent trim returns [0, 0] and an empty signal; otherwise
\* start = first non-silent frame * hop_length, end = min(n, (last non-silent frame + 1)
\* * hop_length), and the returned signal is y[start:end].
C1_TrimInterval ==
    Returned =>
        IF NonSilentFrames = {}
        THEN ret.index = <<0, 0>> /\ ret.y = <<>>
        ELSE /\ \E f \in NonSilentFrames :
                  IsFirst(f, NonSilentFrames) /\ ret.index[1] = f * hop_length
             /\ \E l \in NonSilentFrames :
                  /\ IsLast(l, NonSilentFrames)
                  /\ ret.index[2] = (IF Len(y) < (l + 1) * hop_length
                                     THEN Len(y) ELSE (l + 1) * hop_length)
             /\ IsSlice(ret.y, y, ret.index[1], ret.index[2])

\* C1 witness: trim returned with silent frames before and after the non-silent ones
C1_Witness ==
    /\ Returned
    /\ NonSilentFrames # {}
    /\ ~ret.mask[1]
    /\ ~ret.mask[Len(ret.mask)]
    /\ ret.index[1] > 0
    /\ ret.index[2] < Len(y)

\* C2: whenever trim returns, 0 <= start <= end <= n, the frames being those of the
\* signal padded by frame_length // 2 on each side.
C2_IntervalBounds ==
    Returned =>
        /\ Len(ret.mask) = (Len(y) + 2 * (frame_length \div 2) - frame_length) \div hop_length + 1
        /\ 0 <= ret.index[1]
        /\ ret.index[1] <= ret.index[2]
        /\ ret.index[2] <= Len(y)

\* C2 witness: the last frame is non-silent and reaches past the end of the signal,
\* so that end is n and not (last + 1) * hop_length
C2_Witness ==
    /\ Returned
    /\ ret.mask[Len(ret.mask)]
    /\ Len(ret.mask) * hop_length > Len(y)
    /\ ret.index[2] = Len(y)
    /\ ret.index[1] > 0

\* C3 as stated: with the default ref, trim never returns start = end = 0 for a
\* non-empty signal, for any top_db.
C3_Original ==
    (Returned /\ ref = RefMax /\ Len(y) >= 1) => ret.index # <<0, 0>>

\* C3 amended: with the default ref and top_db > 0, the frame of maximal energy is
\* non-silent and trim never returns start = end = 0 for a non-empty signal; with the
\* default ref and top_db <= 0 no frame is non-silent and trim returns [0, 0].
C3_DefaultRefNeverEmpty ==
    (Returned /\ ref = RefMax /\ Len(y) >= 1) =>
        /\ top_db > 0 => (NonSilentFrames # {} /\ ret.index # <<0, 0>>)
        /\ top_db <= 0 => (NonSilentFrames = {} /\ ret.index = <<0, 0>>)

\* C3 witness: default ref, positive top_db, some frames silent and some not
C3_Witness ==
    /\ Returned
    /\ ref = RefMax
    /\ top_db > 0
    /\ Len(y) >= 1
    /\ NonSilentFrames # {}
    /\ \E j \in 1..Len(ret.mask) : ~ret.mask[j]

\* C4 as stated, at trim's default top_db and ref: trim applied to its own output,
\* with the same parameters, returns that output unchanged with the interval [0, len].
C4_Original ==
    (call = "trim" /\ pc = "again" /\ top_db = 60 /\ ref = RefMax) =>
        /\ ret2.ok
        /\ ret2.y = ret.y
        /\ ret2.index = <<0, Len(ret.y)>>

\* C4 amended: trim applied to its own output y1 fails only when y1 is empty and
\* frame_length is odd; otherwise it returns a slice y1[s:e] with 0 <= s <= e <= len(y1),
\* which is y1 itself exactly when [s, e] = [0, len(y1)], and which may be shorter.
C4_Retrim ==
    (call = "trim" /\ pc = "again") =>
        /\ ~ret2.ok <=> (Len(ret.y) = 0 /\ frame_length % 2 = 1)
        /\ ret2.ok =>
             /\ 0 <= ret2.index[1]
             /\ ret2.index[1] <= ret2.index[2]
             /\ ret2.index[2] <= Len(ret.y)
             /\ IsSlice(ret2.y, ret.y, ret2.index[1], ret2.index[2])
             /\ (ret2.y = ret.y) <=> (ret2.index = <<0, Len(ret.y)>>)

\* C4 witness: with the default top_db and ref, the second trim removes more samples
C4_Witness ==
    /\ call = "trim"
    /\ pc = "again"
    /\ top_db = 60
    /\ ref = RefMax
    /\ ret2.ok
    /\ Len(ret2.y) < Len(ret.y)
    /\ Len(ret2.y) > 0

AllZero(yy) == \A i \in 1..Len(yy) : yy[i] = Zero

\* C5: for an all-zero signal of length n >= 1 with the default ref and top_db = 60,
\* every frame is non-silent and trim returns the whole signal with interval [0, n].
C5_AllZero ==
    (call = "trim" /\ pc # "call" /\ AllZero(y) /\ Len(y) >= 1
       /\ ref = RefMax /\ top_db = 60) =>
        /\ ret.ok
        /\ \A j \in 1..Len(ret.mask) : ret.mask[j]
        /\ ret.index = <<0, Len(y)>>
        /\ ret.y = y

\* C5 witness: an all-zero signal of several frames was trimmed
C5_Witness ==
    /\ Returned
    /\ AllZero(y)
    /\ Len(y) >= 2
    /\ ref = RefMax
    /\ top_db = 60
    /\ Len(ret.mask) >= 2

\* C6 as stated: on the 1000-sample scenario trim returns the interval [150, 450].
C6_Original ==
    (call = "trim" /\ pc # "call" /\ y = Scenario) =>
        ret.ok /\ ret.y # <<>> /\ ret.index = <<150, 450>>

\* C6 amended: on the 1000-sample scenario trim returns a non-empty array of 250
\* samples and the interval [200, 450].
C6_Scenario ==
    (call = "trim" /\ pc # "call" /\ y = Scenario) =>
        /\ ret.ok
        /\ ret.y # <<>>
        /\ Len(ret.y) = 250
        /\ ret.index = <<200, 450>>

\* C6 witness: the scenario was trimmed
C6_Witness ==
    /\ Returned
    /\ y = Scenario
    /\ frame_length = 100
    /\ hop_length = 50
    /\ ret.y # <<>>

----------------------------------------------------------------------------
(* Claims about frame *)

FrameReturned == call = "frame" /\ pc = "return"

\* C7: with axis = -1, x.shape[-1] >= frame_length and hop_length >= 1, frame produces
\* floor((n - frame_length) / hop_length) + 1 frames, and frame j is the contiguous
\* slice x[j * hop_length : j * hop_length + frame_length].
C7_FrameSlices ==
    (FrameReturned /\ axis = -1 /\ Len(x) >= frame_length /\ hop_length >= 1) =>
        /\ ret.ok
        /\ Len(ret.view) = frame_length
        /\ \A k \in 1..frame_length :
             Len(ret.view[k]) = (Len(x) - frame_length) \div hop_length + 1
        /\ \A k \in 1..frame_length : \A j \in 1..Len(ret.view[k]) :
             ret.view[k][j] = x[(j - 1) * hop_length + k]

\* C7 witness: several overlapping frames, the hop not dividing n - frame_length
C7_Witness ==
    /\ FrameReturned
    /\ axis = -1
    /\ ret.ok
    /\ hop_length >= 2
    /\ frame_length > hop_length
    /\ (Len(x) - frame_length) % hop_length # 0
    /\ Len(ret.view[1]) >= 2
    /\ \A i, j \in 1..Len(x) : i # j => x[i] # x[j]

TooShort == "ParameterError: Input is too short"
InvalidHop == "ParameterError: Invalid hop_length"

\* C8 as stated: frame fails with "input too short" whenever x.shape[axis] <
\* frame_length, with "invalid hop_length" whenever hop_length < 1, and returns a view
\* in every other case; no view is produced on a failure.
C8_Original ==
    FrameReturned =>
        /\ Len(x) < frame_length => (~ret.ok /\ ret.err = TooShort)
        /\ hop_length < 1 => (~ret.ok /\ ret.err = InvalidHop)
        /\ (Len(x) >= frame_length /\ hop_length >= 1) => ret.ok
        /\ ~ret.ok => ret.view = <<>>

\* C8 amended: for frame_length >= 1, frame fails with "input too short" whenever
\* x.shape[axis] < frame_length (also when hop_length < 1), with "invalid hop_length"
\* whenever hop_length < 1 and x.shape[axis] >= frame_length, and returns a view in
\* every other case; no view is produced on a failure.
C8_FrameErrors ==
    FrameReturned =>
        /\ Len(x) < frame_length => (~ret.ok /\ ret.err = TooShort)
        /\ (hop_length < 1 /\ Len(x) >= frame_length) => (~ret.ok /\ ret.err = InvalidHop)
        /\ (Len(x) >= frame_length /\ hop_length >= 1) => (ret.ok /\ ret.view # <<>>)
        /\ ~ret.ok => ret.view = <<>>

\* C8 witness: the input is too short and the hop is invalid, both at once
C8_Witness ==
    /\ FrameReturned
    /\ Len(x) < frame_length
    /\ hop_length < 1
    /\ ret.err = TooShort

----------------------------------------------------------------------------
(* Claims about rms *)

RmsReturned == call = "rms" /\ pc = "return"

\* C9 as stated: rms fails when neither y nor S is supplied and when both are, and
\* only a call that supplies exactly one of them returns a result.
C9_Original ==
    RmsReturned =>
        /\ (y = None /\ S = None) => ~ret.ok
        /\ (y # None /\ S # None) => ~ret.ok
        /\ ret.ok => ((y = None) # (S = None))

\* C9 amended: rms fails when neither y nor S is supplied, and a call that returns
\* supplied at least one of them; when both are supplied rms computes from y and
\* ignores S, whatever the shape of S: it returns one value per frame of the padded y.
C9_RmsInputs ==
    RmsReturned =>
        /\ (y = None /\ S = None) =>
             (~ret.ok /\ ret.err = "ParameterError: Either y or S must be input")
        /\ ret.ok => (y # None \/ S # None)
        /\ y # None =>
             /\ ret.ok <=> Len(y[1]) + 2 * (frame_length \div 2) >= frame_length
             /\ ret.ok =>
                  /\ Len(ret.rms) = 1
                  /\ Len(ret.rms[1]) =
                       (Len(y[1]) + 2 * (frame_length \div 2) - frame_length)
                           \div hop_length + 1

\* C9 witness: both were supplied, S with a shape that rms(S=...) would reject
C9_Witness ==
    /\ RmsReturned
    /\ y # None
    /\ S # None
    /\ Len(S[1]) # frame_length \div 2 + 1
    /\ ret.ok

----------------------------------------------------------------------------
(* Claims about power_to_db *)

DbEq(a, b) == ~DbLess(a, b) /\ ~DbLess(b, a)

\* m is the largest value of the array arr
IsDbMax(m, arr) ==
    /\ \E i \in 1..Len(arr) : DbEq(arr[i], m)
    /\ \A i \in 1..Len(arr) : ~DbLess(m, arr[i])

Clamped ==
    /\ call = "power_to_db"
    /\ pc = "return"
    /\ amin.n > 0
    /\ top_db # None
    /\ top_db[1] >= 0

\* C10: with top_db >= 0 given, no output value is below (global maximum of the
\* unclamped result) - top_db, the global maximum of the output is that of the
\* unclamped result, and every value at or above that floor is unchanged.
C10_Clamp ==
    Clamped =>
        /\ ret.ok
        /\ LET unclamped == log_spec_of(S, ref, amin)
           IN  /\ Len(ret.db) = Len(unclamped)
               /\ \E m \in 1..Len(unclamped) :
                    /\ IsDbMax(unclamped[m], unclamped)
                    /\ IsDbMax(unclamped[m], ret.db)
                    /\ \A i \in 1..Len(unclamped) :
                         LET floor == DbMinus(unclamped[m], top_db[1])
                         IN  /\ ~DbLess(ret.db[i], floor)
                             /\ ~DbLess(unclamped[i], floor) => DbEq(ret.db[i], unclamped[i])

\* C10 witness: one value was raised to the floor and another, below the maximum,
\* was left unchanged
C10_Witness ==
    /\ Clamped
    /\ ret.ok
    /\ LET unclamped == log_spec_of(S, ref, amin)
       IN  /\ \E i \in 1..Len(unclamped) : DbLess(unclamped[i], ret.db[i])
           /\ \E i, m \in 1..Len(unclamped) :
                DbEq(unclamped[i], ret.db[i]) /\ DbLess(unclamped[i], unclamped[m])

----------------------------------------------------------------------------
(* Claims about the error checks of power_to_db and amplitude_to_db *)

DbReturned == call \in {"power_to_db", "amplitude_to_db"} /\ pc = "return"

InvalidFloor == "ParameterError: amin must be strictly positive"
InvalidDynamicRange == "ParameterError: top_db must be non-negative"

\* C11: both converters fail for every call with amin <= 0 and for every call with
\* a provided top_db < 0, and neither fails on these grounds when amin > 0 and
\* top_db is absent or non-negative.
C11_Original ==
    DbReturned =>
        IF amin.n <= 0 \/ (top_db # None /\ top_db[1] < 0)
        THEN ~ret.ok /\ ret.err \in {InvalidFloor, InvalidDynamicRange}
        ELSE ret.err \notin {InvalidFloor, InvalidDynamicRange}

\* C11 witness: amplitude_to_db returned a result for a negative amin, whose
\* square is the positive floor that power_to_db received
C11_Witness ==
    /\ call = "amplitude_to_db"
    /\ pc = "return"
    /\ amin.n < 0
    /\ ret.ok
    /\ Len(ret.db) = Len(S)

----------------------------------------------------------------------------
(* Claims about rms on a spectrogram *)

ShapeMismatch == "ParameterError: frame_length is expected to be"

\* a call rms(S=...) without y has returned or failed
RmsOfSpectrogram == RmsReturned /\ y = None /\ S # None

\* C12: rms(S=...) accepts a spectrogram with d frequency bins exactly when
\* frame_length // 2 + 1 = d, which is exactly when frame_length is 2*d - 2 or
\* 2*d - 1; for every other frame_length it fails with the shape-mismatch error
\* and computes nothing; an accepted call returns one value per time frame.
C12_SpectrogramShape ==
    RmsOfSpectrogram =>
        LET d == Len(S[1])
        IN  /\ ret.ok <=> frame_length \div 2 + 1 = d
            /\ ret.ok <=> frame_length \in {2 * d - 2, 2 * d - 1}
            /\ ~ret.ok => (ret.err = ShapeMismatch /\ ret.rms = <<>>)
            /\ ret.ok =>
                 /\ ret.used = "S"
                 /\ Len(ret.rms) = 1
                 /\ Len(ret.rms[1]) = Len(S[1][1])

\* C12 witness: the odd frame_length 2*d - 1 was accepted for d = 2 bins and a
\* non-zero energy was computed
C12_Witness ==
    /\ RmsOfSpectrogram
    /\ Len(S[1]) = 2
    /\ frame_length = 2 * Len(S[1]) - 1
    /\ ret.ok
    /\ \E j \in 1..Len(ret.rms[1]) : ~IsZero(Square(ret.rms[1][j]))

----------------------------------------------------------------------------
(* Claims about the shape of frame's output *)

RECURSIVE Dot(_, _)
Dot(idx, strides) ==
    IF idx = <<>> THEN 0 ELSE idx[1] * strides[1] + Dot(Tail(idx), Tail(strides))

\* the element of an array or view at an index (one entry per axis, from 0)
At(v, idx) == v.buf[Dot(idx, v.strides) + 1]

\* all indices of an array of the given shape
Indices(shape) ==
    {idx \in [1..Len(shape) -> 0..(SetMax({shape[i] : i \in 1..Len(shape)}) - 1)] :
        \A i \in 1..Len(shape) : idx[i] < shape[i]}

\* frame returned a view of an n-dimensional array
FramedNd == FrameReturned /\ ret.ok /\ DOMAIN x = {"buf", "shape", "strides"}

\* the framing axis of x, counted from 1
FramingAxis == NormAxis(axis, Len(x.shape)) + 1

NFrames == (x.shape[FramingAxis] - frame_length) \div hop_length + 1

\* the shape of x with the framing axis replaced by the two given extents
Placed(first, second) ==
    SubSeq(x.shape, 1, FramingAxis - 1) \o <<first, second>>
        \o SubSeq(x.shape, FramingAxis + 1, Len(x.shape))

\* C13 as stated: frame adds one dimension; whenever axis designates the last axis
\* of x, as -1 or as x.ndim - 1, the output shape is (..., frame_length, n_frames);
\* for a non-negative axis the shape is (..., n_frames, frame_length, ...).
\* Stated for arrays of two or more dimensions, where axis 0 is not the last axis.
C13_Original ==
    (FramedNd /\ Len(x.shape) >= 2) =>
        /\ Len(ret.view.shape) = Len(x.shape) + 1
        /\ axis \in {-1, Len(x.shape) - 1} => ret.view.shape = Placed(frame_length, NFrames)
        /\ (axis >= 0 /\ axis # Len(x.shape) - 1) =>
             ret.view.shape = Placed(NFrames, frame_length)

\* C13 amended: frame adds one dimension, placed by the sign of axis: for axis < 0
\* the frame-length axis comes immediately before the frame-count axis,
\* (..., frame_length, n_frames, ...); for axis >= 0, the last axis given as
\* x.ndim - 1 included, immediately after it, (..., n_frames, frame_length, ...).
\* Element k of frame j is sample j * hop_length + k along the framing axis, and
\* for a 1-D x the view is the one rms frames its signal with.
C13_FramePlacement ==
    FramedNd =>
        LET a == FramingAxis
            out == ret.view
            kpos == IF axis < 0 THEN a ELSE a + 1
            jpos == IF axis < 0 THEN a + 1 ELSE a
        IN  /\ Len(out.shape) = Len(x.shape) + 1
            /\ axis < 0 => out.shape = Placed(frame_length, NFrames)
            /\ axis >= 0 => out.shape = Placed(NFrames, frame_length)
            /\ \A idx \in Indices(out.shape) :
                 At(out, idx) =
                    At(x, [i \in 1..Len(x.shape) |->
                              IF i < a THEN idx[i]
                              ELSE IF i = a THEN idx[jpos] * hop_length + idx[kpos]
                              ELSE idx[i + 1]])
            /\ Len(x.shape) = 1 =>
                 LET fr == frame(x.buf, frame_length, hop_length, axis)
                 IN  /\ fr.ok
                     /\ Len(fr.view) = out.shape[1]
                     /\ \A r \in 1..out.shape[1] :
                          /\ Len(fr.view[r]) = out.shape[2]
                          /\ \A c \in 1..out.shape[2] :
                               fr.view[r][c] = At(out, <<r - 1, c - 1>>)

\* C13 witness: the last axis of a 2-D or 3-D array was framed by its non-negative
\* index, and the frame-length axis came last, after the frame-count axis
C13_Witness ==
    /\ FramedNd
    /\ Len(x.shape) >= 2
    /\ axis = Len(x.shape) - 1
    /\ NFrames >= 2
    /\ frame_length >= 2
    /\ NFrames # frame_length
    /\ ret.view.shape = Placed(NFrames, frame_length)

====
